---- MODULE Spec2Model ----
(***************************************************************************)
(* Model of the gauge runner supervisor (src/runner/runner.go):            *)
(*   - StartRunnerAndMakeConnection / startRunner: bind listener, spawn    *)
(*     the runner process, start the kill watcher and the exit watcher,    *)
(*     race accept / exit error / timeout, clean up on failure;            *)
(*   - TestRunner.Kill: stop message, liveness poller against grace timer, *)
(*     forced kill;                                                        *)
(*   - getCleanEnv: rewriting of the port variable in the environment.     *)
(* Strings that the code takes apart (environment entries) are sequences   *)
(* of one-character strings.                                               *)
(***************************************************************************)
EXTENDS Integers, Sequences, FiniteSets, TLC

VARIABLES
    GOOS,            \* runtime.GOOS of the build
    startPc,         \* position of StartRunnerAndMakeConnection: idle / accepting / returned
    listener,        \* the GaugeConnectionHandler's listening socket: none / open
    proc,            \* OS-level state of the spawned process
    ProcessState,    \* testRunner.Cmd.ProcessState, set when cmd.Wait() returns
    connPending,     \* the runner process has dialled the listener
    Connection,      \* testRunner.Connection: nil / open / closed
    exitWatcher,     \* goroutine of waitAndGetErrorMessage: none / waiting / copying / sending / done
    killWatcher,     \* goroutine of startRunner waiting on killChannel
    acceptOutcome,   \* which event AcceptConnection's select took
    retRunner,       \* *TestRunner returned by the start call
    retErr,          \* error returned by the start call
    startKill,       \* result of the cleanup killRunner() of the start call
    killReqKilled,   \* the kill watcher killed the live process before the start call returned
    killPc,          \* position of the current Kill call: idle / racing
    kills,           \* one record per Kill call (history of what the call did)
    poller,          \* liveness poller goroutine of each Kill call
    exited,          \* the buffered channel `exited` of each Kill call
    errSends,        \* number of sends begun on the exit-error channel
    startLog,        \* the steps of the start call, in the order the code takes them
    killReqs,        \* number of kill requests the kill watcher has received
    killWatcherRes,  \* result of the kill watcher's cmd.Process.Kill()
    listenerPort,    \* port number of the bound listener (0 while none is bound)
    childEnv,        \* environment the runner process was spawned with
    env,             \* getCleanEnv: inherited environment
    port,            \* getCleanEnv: allocated port
    cleanEnv,        \* getCleanEnv: result
    envPc,           \* getCleanEnv: input / done / off
    message,         \* AddPrefixToEachLine: the text
    prefix,          \* AddPrefixToEachLine: the prefix
    prefixedLines,   \* AddPrefixToEachLine: the result
    prefixPc,        \* AddPrefixToEachLine: input / done / off
    runnerInfo,      \* command selection: the runner descriptor (Run and Init command lists)
    command,         \* getOsSpecificCommand: the list it returned
    runPc,           \* getOsSpecificCommand: input / done / off
    initCommand,     \* ExecuteInitHookForRunner: the list its switch selected
    initPc,          \* ExecuteInitHookForRunner: input / done / off
    gaugeCheck,      \* update check: how checkGaugeUpdate will end
    pluginChecks,    \* update check: how the check of each installed plugin will end
    facadePc,        \* caller of UpdateFacade: start / buffered / sending / waiting / returned / off
    printTask,       \* goroutine printUpdateInfo: none / spawned / select / done
    checkTask,       \* goroutine calling checkUpdates: none / checking / sending / done
    heldMessage,     \* waitToPrint's message parameter
    wg,              \* counter of the WaitGroup
    updLog           \* what waitToPrint did, in order: message / print / log / done

runnerVars == <<GOOS, startPc, listener, proc, ProcessState, connPending, Connection,
                exitWatcher, killWatcher, acceptOutcome, retRunner, retErr, startKill,
                killReqKilled, killPc, kills, poller, exited, errSends, startLog, killReqs,
                killWatcherRes, listenerPort, childEnv>>
envVars == <<env, port, cleanEnv, envPc>>
prefixVars == <<message, prefix, prefixedLines, prefixPc>>
cmdVars == <<runnerInfo, command, runPc, initCommand, initPc>>
updVars == <<gaugeCheck, pluginChecks, facadePc, printTask, checkTask, heldMessage, wg, updLog>>
vars == <<runnerVars, envVars, prefixVars, cmdVars, updVars>>

\* ---------------------------------------------------------------- bounds
MaxKills == 2
MaxEnvLen == 3

\* ---------------------------------------------------------------- getCleanEnv
GaugeInternalPortEnvName == <<"G","A","U","G","E","_","I","N","T","E","R","N","A","L","_","P","O","R","T">>

\* the white-space runes of unicode.IsSpace; a rune that has no escape in a string is
\* written as its code point
WhiteSpace ==
    {" ", "\t", "\n", "\r", "\f", "U+000B", "U+0085", "U+00A0", "U+1680",
     "U+2000", "U+2001", "U+2002", "U+2003", "U+2004", "U+2005", "U+2006", "U+2007",
     "U+2008", "U+2009", "U+200A", "U+2028", "U+2029", "U+202F", "U+205F", "U+3000"}

IsSpace(c) == c \in WhiteSpace

RECURSIVE IndexOfEq(_, _)
\* index of the first "=" of s at or after i, or 0
IndexOfEq(s, i) ==
    IF i > Len(s) THEN 0
    ELSE IF s[i] = "=" THEN i
    ELSE IndexOfEq(s, i + 1)

\* strings.Split(k, "=")[0]
SplitFirst(s) ==
    LET i == IndexOfEq(s, 1) IN IF i = 0 THEN s ELSE SubSeq(s, 1, i - 1)

RECURSIVE TrimLeft(_)
TrimLeft(s) == IF s # <<>> /\ IsSpace(Head(s)) THEN TrimLeft(Tail(s)) ELSE s

RECURSIVE TrimRight(_)
TrimRight(s) ==
    IF s # <<>> /\ IsSpace(s[Len(s)]) THEN TrimRight(SubSeq(s, 1, Len(s) - 1)) ELSE s

\* strings.TrimSpace
TrimSpace(s) == TrimRight(TrimLeft(s))

\* the test of line 224: is entry k read as the port variable
IsPortKey(k) == TrimSpace(SplitFirst(k)) = GaugeInternalPortEnvName

PortEntry(p) == GaugeInternalPortEnvName \o <<"=">> \o p

\* mutant: the entry is always appended, an existing one is left alone
getCleanEnvAlwaysAppend(p, e) == Append(e, PortEntry(p))

\* mutant: an existing entry is rewritten and the variable is appended as well
getCleanEnvRewriteAndAppend(p, e) ==
    Append([i \in 1..Len(e) |-> IF IsPortKey(e[i]) THEN PortEntry(p) ELSE e[i]], PortEntry(p))

getCleanEnv(p, e) ==
    LET rewritten == [i \in 1..Len(e) |-> IF IsPortKey(e[i]) THEN PortEntry(p) ELSE e[i]]
        isPresent == \E i \in 1..Len(e) : IsPortKey(e[i])
    IN  IF ~isPresent THEN Append(rewritten, PortEntry(p)) ELSE rewritten

\* inputs of getCleanEnv
EnvEntries ==
    { GaugeInternalPortEnvName \o <<"=","9","9","9","9">>,
      <<" ">> \o GaugeInternalPortEnvName \o <<" ","=","1">>,
      <<"\n","U+00A0">> \o GaugeInternalPortEnvName \o <<"\r","=","3">>,
      GaugeInternalPortEnvName,
      GaugeInternalPortEnvName \o <<"X","=","1">>,
      <<"P","A","T","H","=","/","b">>,
      <<"K","=">> \o GaugeInternalPortEnvName \o <<"=","2">> }

Ports == { <<"7","7","7","7">>, <<"0">> }

Envs == UNION { [1..n -> EnvEntries] : n \in 0..MaxEnvLen }

\* number of entries of e that getCleanEnv reads as the port variable
PortKeyCount(e) == Cardinality({i \in 1..Len(e) : IsPortKey(e[i])})

\* number of entries of e whose name is exactly the port variable
ExactPortCount(e) ==
    Cardinality({i \in 1..Len(e) :
        /\ IndexOfEq(e[i], 1) # 0
        /\ SplitFirst(e[i]) = GaugeInternalPortEnvName})

EnvOff == env = <<>> /\ port = <<>> /\ cleanEnv = <<>> /\ envPc = "off"

EnvInit == env \in Envs /\ port \in Ports /\ cleanEnv = <<>> /\ envPc = "input"

CallGetCleanEnv ==
    /\ envPc = "input"
    /\ cleanEnv' = getCleanEnv(port, env)
    /\ envPc' = "done"
    /\ UNCHANGED <<env, port, runnerVars, prefixVars, cmdVars, updVars>>

\* ---------------------------------------------------------------- process and runner state
\* values of runtime.GOOS: the three the switches name and one they do not
Platforms == {"windows", "linux", "darwin", "freebsd"}

\* os.ProcessState.Exited(): on unix true only for a normal exit, on windows always
Exited(ps) == IF GOOS = "windows" THEN TRUE ELSE ps \in {"exited0", "exitedErr"}

isStillRunning(runner) ==
    /\ runner # "nil"
    /\ (ProcessState = "nil" \/ ~Exited(ProcessState))

\* os.Process.Kill(): fails once Wait has returned, else as the OS decides
ProcessKill(osOk) == IF ProcessState # "nil" THEN "failed" ELSE IF osOk THEN "ok" ELSE "failed"

ProcAfterKill(res) == IF res = "ok" /\ proc = "running" THEN "signaled" ELSE proc

RunnerInit ==
    /\ GOOS \in Platforms
    /\ startPc = "idle"
    /\ listener = "none"
    /\ proc = "none"
    /\ ProcessState = "nil"
    /\ connPending = FALSE
    /\ Connection = "nil"
    /\ exitWatcher = "none"
    /\ killWatcher = "none"
    /\ acceptOutcome = "none"
    /\ retRunner = "unset"
    /\ retErr = "unset"
    /\ startKill = "none"
    /\ killReqKilled = FALSE
    /\ killPc = "idle"
    /\ kills = <<>>
    /\ poller = [k \in 1..MaxKills |-> "none"]
    /\ exited = [k \in 1..MaxKills |-> FALSE]
    /\ errSends = 0
    /\ startLog = <<>>
    /\ killReqs = 0
    /\ killWatcherRes = "none"
    /\ listenerPort = 0
    /\ childEnv = <<>>

PrefixOff == message = <<>> /\ prefix = <<>> /\ prefixedLines = <<>> /\ prefixPc = "off"

CmdOff ==
    /\ runnerInfo = <<>>
    /\ command = <<>>
    /\ runPc = "off"
    /\ initCommand = <<>>
    /\ initPc = "off"

UpdOff ==
    /\ gaugeCheck = "none"
    /\ pluginChecks = <<>>
    /\ facadePc = "off"
    /\ printTask = "none"
    /\ checkTask = "none"
    /\ heldMessage = ""
    /\ wg = 0
    /\ updLog = <<>>

Init == RunnerInit /\ EnvOff /\ PrefixOff /\ CmdOff /\ UpdOff

EnvSpecInit == RunnerInit /\ GOOS = "linux" /\ EnvInit /\ PrefixOff /\ CmdOff /\ UpdOff

\* ---------------------------------------------------------------- StartRunnerAndMakeConnection
\* ports a listener can be bound to (line 265)
ListenerPorts == {7777, 80}

\* environments the start call can inherit (os.Environ() of line 177)
StartEnvs ==
    { <<>>,
      << <<"P","A","T","H","=","/","b">>, GaugeInternalPortEnvName \o <<"=","9","9","9","9">> >> }

DecimalDigits == <<"0", "1", "2", "3", "4", "5", "6", "7", "8", "9">>

RECURSIVE Itoa(_)
\* strconv.Itoa of a number that is not negative
Itoa(n) ==
    IF n < 10 THEN <<DecimalDigits[n + 1]>>
    ELSE Itoa(n \div 10) \o <<DecimalDigits[(n % 10) + 1]>>

\* mutant: the process is spawned with the inherited environment as it is
ChildEnvInherited(lp, e) == e

\* lines 269 and 177-178: the environment of the process names the listener's port
ChildEnv(lp, e) == getCleanEnv(Itoa(lp), e)

StartErrors == {"connHandlerErr", "descriptorErr", "incompatibleErr", "launchErr"}

\* the steps taken by lines 260-272 and 166-181 up to the failing one
EarlyFailureLog(e) ==
    CASE e = "connHandlerErr"  -> <<"bindFailed">>
      [] e = "descriptorErr"   -> <<"bind", "descriptorFailed">>
      [] e = "incompatibleErr" -> <<"bind", "descriptor", "incompatible">>
      [] e = "launchErr"       -> <<"bind", "descriptor", "compatible", "spawnFailed">>

\* mutant: the descriptor and the version are checked only after the process was spawned
StartFailsEarlySpawnsFirst ==
    /\ envPc = "off"
    /\ prefixPc = "off"
    /\ startPc = "idle"
    /\ \E e \in StartErrors :
        /\ listener' = IF e = "connHandlerErr" THEN "none" ELSE "open"
        /\ listenerPort' \in (IF e = "connHandlerErr" THEN {0} ELSE ListenerPorts)
        /\ retErr' = e
        /\ startLog' = EarlyFailureLog(e)
        /\ proc' = IF e \in {"descriptorErr", "incompatibleErr"} THEN "running" ELSE proc
        /\ killWatcher' = IF e \in {"descriptorErr", "incompatibleErr"} THEN "waiting" ELSE killWatcher
        /\ exitWatcher' = IF e \in {"descriptorErr", "incompatibleErr"} THEN "waiting" ELSE exitWatcher
    /\ retRunner' = "nil"
    /\ startPc' = "returned"
    /\ UNCHANGED <<GOOS, ProcessState, connPending, Connection,
                   acceptOutcome, startKill, killReqKilled, killPc, kills, poller, exited, envVars, prefixVars, cmdVars, updVars,
                   childEnv,
                   errSends, killReqs, killWatcherRes>>

\* lines 260-272 when a step before the spawn fails: the call returns (nil, err)
StartFailsEarly ==
    /\ envPc = "off"
    /\ prefixPc = "off"
    /\ startPc = "idle"
    /\ \E e \in StartErrors :
        /\ listener' = IF e = "connHandlerErr" THEN "none" ELSE "open"
        /\ listenerPort' \in (IF e = "connHandlerErr" THEN {0} ELSE ListenerPorts)
        /\ retErr' = e
        /\ startLog' = EarlyFailureLog(e)
    /\ retRunner' = "nil"
    /\ startPc' = "returned"
    /\ UNCHANGED <<GOOS, proc, ProcessState, connPending, Connection, exitWatcher, killWatcher,
                   acceptOutcome, startKill, killReqKilled, killPc, kills, poller, exited, envVars, prefixVars, cmdVars, updVars,
                   childEnv,
                   errSends, killReqs, killWatcherRes>>

\* the steps of lines 265, 168-190 and 274 up to the blocking accept
SpawnLog ==
    <<"bind", "descriptor", "compatible", "spawn", "killWatcher", "exitWatcher", "accept">>

\* mutant: the process is killed before the accept is attempted a last time
FinishLogKillFirst(connectionError) ==
    IF connectionError # "nil" THEN <<"cleanupKill", "acceptFailed">> ELSE <<"accepted">>

\* the steps of lines 274-284 once the accept has returned
FinishLog(connectionError) ==
    IF connectionError # "nil" THEN <<"acceptFailed", "cleanupKill">> ELSE <<"accepted">>

\* lines 260-273: listener bound, process spawned, both watchers started
StartSpawn ==
    /\ envPc = "off"
    /\ prefixPc = "off"
    /\ startPc = "idle"
    /\ startLog' = SpawnLog
    /\ listener' = "open"
    /\ \E lp \in ListenerPorts, e \in StartEnvs :
        /\ listenerPort' = lp
        /\ childEnv' = ChildEnv(lp, e)
    /\ proc' = "running"
    /\ killWatcher' = "waiting"
    /\ exitWatcher' = "waiting"
    /\ startPc' = "accepting"
    /\ UNCHANGED <<GOOS, ProcessState, connPending, Connection, acceptOutcome, retRunner, retErr,
                   startKill, killReqKilled, killPc, kills, poller, exited, envVars, prefixVars, cmdVars, updVars,
                   errSends, killReqs, killWatcherRes>>

\* mutant: the cleanup kill is forgotten
NeedsCleanupKillNever(connectionError) == FALSE

\* line 276
NeedsCleanupKill(connectionError) == connectionError # "nil"

\* mutant: the runner is handed out whatever the accept said
StartReturnAlwaysRunner(connectionError) == [runner |-> "runner", err |-> "nil"]

\* lines 276-284: what the start call returns
StartReturn(connectionError) ==
    IF connectionError # "nil"
    THEN [runner |-> "nil", err |-> connectionError]
    ELSE [runner |-> "runner", err |-> "nil"]

\* lines 274-285 once AcceptConnection's select has taken `outcome`
FinishStart(outcome) ==
    LET connectionError == IF outcome = "conn" THEN "nil" ELSE outcome
        r == StartReturn(connectionError)
    IN  /\ acceptOutcome' = outcome
        /\ startLog' = startLog \o FinishLog(connectionError)
        /\ Connection' = IF outcome = "conn" THEN "open" ELSE "nil"
        /\ IF NeedsCleanupKill(connectionError)
           THEN \E osOk \in BOOLEAN :
                    /\ startKill' = ProcessKill(osOk)
                    /\ proc' = ProcAfterKill(ProcessKill(osOk))
           ELSE UNCHANGED <<startKill, proc>>
        /\ retRunner' = r.runner
        /\ retErr' = r.err
        /\ startPc' = "returned"
        /\ UNCHANGED <<GOOS, listener, ProcessState, connPending, killWatcher, killReqKilled,
                       killPc, kills, poller, exited, envVars, prefixVars, cmdVars, updVars,
                   listenerPort, childEnv,
                   errSends, killReqs, killWatcherRes>>

\* AcceptConnection: the inbound connection is taken
AcceptConn ==
    /\ startPc = "accepting"
    /\ connPending
    /\ FinishStart("conn")
    /\ UNCHANGED exitWatcher

\* AcceptConnection: the value of the exit-error channel is taken
AcceptErr ==
    /\ startPc = "accepting"
    /\ exitWatcher = "sending"
    /\ exitWatcher' = "done"
    /\ FinishStart("exitErr")

\* AcceptConnection: the connection timeout fires
AcceptTimeout ==
    /\ startPc = "accepting"
    /\ FinishStart("timeout")
    /\ UNCHANGED exitWatcher

\* ---------------------------------------------------------------- the runner process
ExitKinds == {"exited0", "exitedErr", "signaled"}

\* the runner process dials the listener
ProcConnects ==
    /\ proc = "running"
    /\ startPc = "accepting"
    /\ listener = "open"
    /\ ~connPending
    /\ connPending' = TRUE
    /\ UNCHANGED <<GOOS, startPc, listener, proc, ProcessState, Connection, exitWatcher,
                   killWatcher, acceptOutcome, retRunner, retErr, startKill, killReqKilled,
                   killPc, kills, poller, exited, envVars, prefixVars, cmdVars, updVars,
                   listenerPort, childEnv,
                   errSends, startLog, killReqs, killWatcherRes>>

\* the runner process ends by itself: exit code 0, exit code # 0, or a fatal signal
ProcExits ==
    /\ proc = "running"
    /\ \E k \in ExitKinds : proc' = k
    /\ UNCHANGED <<GOOS, startPc, listener, ProcessState, connPending, Connection, exitWatcher,
                   killWatcher, acceptOutcome, retRunner, retErr, startKill, killReqKilled,
                   killPc, kills, poller, exited, envVars, prefixVars, cmdVars, updVars,
                   listenerPort, childEnv,
                   errSends, startLog, killReqs, killWatcherRes>>

\* ---------------------------------------------------------------- watchers of startRunner
\* mutant: the watcher gives up once the start call has returned; a later request is
\* taken and dropped
KillWatcherFiresOnlyWhileStarting ==
    /\ killWatcher = "waiting"
    /\ \E osOk \in BOOLEAN :
        /\ proc' = IF startPc = "accepting" THEN ProcAfterKill(ProcessKill(osOk)) ELSE proc
        /\ killWatcherRes' = IF startPc = "accepting" THEN ProcessKill(osOk) ELSE "none"
        /\ killReqKilled' = (killReqKilled \/
                (ProcessKill(osOk) = "ok" /\ proc = "running" /\ startPc = "accepting"))
    /\ killWatcher' = "done"
    /\ killReqs' = killReqs + 1
    /\ UNCHANGED <<GOOS, startPc, listener, ProcessState, connPending, Connection, exitWatcher,
                   acceptOutcome, retRunner, retErr, startKill, killPc, kills, poller, exited,
                   envVars, prefixVars, cmdVars, updVars,
                   listenerPort, childEnv,
                   errSends, startLog>>

\* lines 182-187: a kill request arrives and the watcher kills the process
KillWatcherFires ==
    /\ killWatcher = "waiting"
    /\ \E osOk \in BOOLEAN :
        /\ proc' = ProcAfterKill(ProcessKill(osOk))
        /\ killWatcherRes' = ProcessKill(osOk)
        /\ killReqKilled' = (killReqKilled \/
                (ProcessKill(osOk) = "ok" /\ proc = "running" /\ startPc = "accepting"))
    /\ killWatcher' = "done"
    /\ killReqs' = killReqs + 1
    /\ UNCHANGED <<GOOS, startPc, listener, ProcessState, connPending, Connection, exitWatcher,
                   acceptOutcome, retRunner, retErr, startKill, killPc, kills, poller, exited,
                   envVars, prefixVars, cmdVars, updVars,
                   listenerPort, childEnv,
                   errSends, startLog>>

\* mutant: the watcher reports every exit, a clean one included
WaitErrorAlways(ps) == TRUE

\* line 213: cmd.Wait() returns a non-nil error unless the process exited with code 0
WaitError(ps) == ps # "exited0"

\* line 212, inside cmd.Wait(): Process.Wait returns and Cmd.ProcessState is stored; Wait
\* then waits for the goroutines copying the output of the process
ExitWatcherProcessWait ==
    /\ exitWatcher = "waiting"
    /\ proc \in ExitKinds
    /\ ProcessState' = proc
    /\ exitWatcher' = "copying"
    /\ UNCHANGED <<GOOS, startPc, listener, proc, connPending, Connection, killWatcher,
                   acceptOutcome, retRunner, retErr, startKill, killReqKilled, killPc, kills,
                   poller, exited, envVars, prefixVars, cmdVars, updVars,
                   listenerPort, childEnv,
                   errSends, startLog, killReqs, killWatcherRes>>

\* lines 212-216: the output is copied and cmd.Wait() returns; a non-nil error is to be
\* sent on the unbuffered channel
ExitWatcherWait ==
    /\ exitWatcher = "copying"
    /\ exitWatcher' = IF WaitError(ProcessState) THEN "sending" ELSE "done"
    /\ errSends' = IF WaitError(ProcessState) THEN errSends + 1 ELSE errSends
    /\ UNCHANGED <<GOOS, startPc, listener, proc, ProcessState, connPending, Connection, killWatcher,
                   acceptOutcome, retRunner, retErr, startKill, killReqKilled, killPc, kills,
                   poller, exited, envVars, prefixVars, cmdVars, updVars,
                   listenerPort, childEnv,
                   startLog, killReqs, killWatcherRes>>

\* ---------------------------------------------------------------- TestRunner.Kill
\* mutant: the error of the forced kill is reported even when the kill succeeded
KillResultAlwaysErr(res) == "err"

\* line 142: Kill returns what killRunner returns
KillResult(res) == IF res = "ok" THEN "nil" ELSE "err"

\* mutant: the poller and the timer are started before the stop message is sent
KillEnterLogRaceFirst == <<"poller", "timer", "send">>

\* the steps of lines 121-140 of a Kill call on a running process, up to the select
KillEnterLog == <<"send", "poller", "timer">>

NewKill(running, sendOk) ==
    [ runner     |-> retRunner,
      events     |-> IF running THEN KillEnterLog ELSE <<>>,
      entryProc  |-> proc,
      entryPS    |-> ProcessState,
      entryConn  |-> Connection,
      msgs       |-> IF running THEN 1 ELSE 0,
      sendFailed |-> running /\ ~sendOk,
      forceKills |-> 0,
      killedLive |-> FALSE,
      osKill     |-> "none",
      branch     |-> IF running THEN "racing" ELSE "notRunning",
      ret        |-> IF running THEN "unset" ELSE "nil" ]

\* lines 118-133 and 145: the liveness test, the stop message, the poller
KillEnter ==
    /\ startPc = "returned"
    /\ killPc = "idle"
    /\ Len(kills) < MaxKills
    /\ IF isStillRunning(retRunner)
       THEN /\ \E sendOk \in BOOLEAN :
                  /\ (Connection # "open" => ~sendOk)
                  /\ kills' = Append(kills, NewKill(TRUE, sendOk))
            /\ poller' = [poller EXCEPT ![Len(kills) + 1] = "polling"]
            /\ killPc' = "racing"
       ELSE /\ kills' = Append(kills, NewKill(FALSE, TRUE))
            /\ UNCHANGED <<poller, killPc>>
    /\ UNCHANGED <<GOOS, startPc, listener, proc, ProcessState, connPending, Connection,
                   exitWatcher, killWatcher, acceptOutcome, retRunner, retErr, startKill,
                   killReqKilled, exited, envVars, prefixVars, cmdVars, updVars,
                   listenerPort, childEnv,
                   errSends, startLog, killReqs, killWatcherRes>>

\* lines 124-133: the poller sees the exit and signals it (a sleep changes nothing)
Poll ==
    \E k \in 1..MaxKills :
        /\ poller[k] = "polling"
        /\ ~isStillRunning(retRunner)
        /\ exited' = [exited EXCEPT ![k] = TRUE]
        /\ poller' = [poller EXCEPT ![k] = "done"]
        /\ UNCHANGED <<GOOS, startPc, listener, proc, ProcessState, connPending, Connection,
                       exitWatcher, killWatcher, acceptOutcome, retRunner, retErr, startKill,
                       killReqKilled, killPc, kills, envVars, prefixVars, cmdVars, updVars,
                   listenerPort, childEnv,
                   errSends, startLog, killReqs, killWatcherRes>>

\* lines 136-139 and the deferred Close: the poller's signal is taken
KillPollerWins ==
    /\ killPc = "racing"
    /\ exited[Len(kills)]
    /\ exited' = [exited EXCEPT ![Len(kills)] = FALSE]
    /\ kills' = [kills EXCEPT ![Len(kills)] = [@ EXCEPT !.branch = "poller", !.ret = "nil",
                                   !.events = Append(@, "exitSeen")]]
    /\ Connection' = "closed"
    /\ killPc' = "idle"
    /\ UNCHANGED <<GOOS, startPc, listener, proc, ProcessState, connPending, exitWatcher,
                   killWatcher, acceptOutcome, retRunner, retErr, startKill, killReqKilled,
                   poller, envVars, prefixVars, cmdVars, updVars,
                   listenerPort, childEnv,
                   errSends, startLog, killReqs, killWatcherRes>>

\* mutant: the deferred Connection.Close() is missing on the timer branch
KillTimerWinsNoClose ==
    /\ killPc = "racing"
    /\ \E osOk \in BOOLEAN :
        /\ proc' = ProcAfterKill(ProcessKill(osOk))
        /\ kills' = [kills EXCEPT ![Len(kills)] =
                        [@ EXCEPT !.branch = "timer",
                                  !.events = Append(@, "forceKill"),
                                  !.forceKills = @ + 1,
                                  !.killedLive = (proc = "running" /\ ProcessKill(osOk) = "ok"),
                                  !.osKill = ProcessKill(osOk),
                                  !.ret = KillResult(ProcessKill(osOk))]]
    /\ killPc' = "idle"
    /\ UNCHANGED <<GOOS, startPc, listener, ProcessState, connPending, Connection, exitWatcher,
                   killWatcher, acceptOutcome, retRunner, retErr, startKill, killReqKilled,
                   poller, exited, envVars, prefixVars, cmdVars, updVars,
                   listenerPort, childEnv,
                   errSends, startLog, killReqs, killWatcherRes>>

\* lines 140-142 and the deferred Close: the grace timer fires, the process is killed
KillTimerWins ==
    /\ killPc = "racing"
    /\ \E osOk \in BOOLEAN :
        /\ proc' = ProcAfterKill(ProcessKill(osOk))
        /\ kills' = [kills EXCEPT ![Len(kills)] =
                        [@ EXCEPT !.branch = "timer",
                                  !.events = Append(@, "forceKill"),
                                  !.forceKills = @ + 1,
                                  !.killedLive = (proc = "running" /\ ProcessKill(osOk) = "ok"),
                                  !.osKill = ProcessKill(osOk),
                                  !.ret = KillResult(ProcessKill(osOk))]]
    /\ Connection' = "closed"
    /\ killPc' = "idle"
    /\ UNCHANGED <<GOOS, startPc, listener, ProcessState, connPending, exitWatcher,
                   killWatcher, acceptOutcome, retRunner, retErr, startKill, killReqKilled,
                   poller, exited, envVars, prefixVars, cmdVars, updVars,
                   listenerPort, childEnv,
                   errSends, startLog, killReqs, killWatcherRes>>

\* ---------------------------------------------------------------- specifications
Next ==
    \/ StartFailsEarly
    \/ StartSpawn
    \/ AcceptConn
    \/ AcceptErr
    \/ AcceptTimeout
    \/ ProcConnects
    \/ ProcExits
    \/ KillWatcherFires
    \/ ExitWatcherProcessWait
    \/ ExitWatcherWait
    \/ KillEnter
    \/ Poll
    \/ KillPollerWins
    \/ KillTimerWins

Spec == Init /\ [][Next]_vars

EnvSpec == EnvSpecInit /\ [][CallGetCleanEnv]_vars

\* the goroutines are scheduled and the timers fire: the exit watcher, the accept's
\* select, the pollers and Kill's select each take a step they can take; the process, the
\* kill request and the caller of Kill are free; the copying of the output ends (every
\* holder of the output pipes closes them)
FairSpec ==
    /\ Spec
    /\ WF_vars(ExitWatcherProcessWait)
    /\ WF_vars(ExitWatcherWait)
    /\ WF_vars(AcceptConn \/ AcceptErr \/ AcceptTimeout)
    /\ WF_vars(Poll)
    /\ WF_vars(KillPollerWins \/ KillTimerWins)

\* ---------------------------------------------------------------- properties
KillCalls == 1..Len(kills)

Returned(i) == kills[i].ret # "unset"

\* C1: whenever the start call has returned an error after the process was spawned, the
\* cleanup force-kill was invoked before the return, and if that kill succeeded the
\* process is not running.
C1_FailedStartKilledProcess ==
    (startPc = "returned" /\ retErr # "nil" /\ proc # "none") =>
        /\ startKill # "none"
        /\ (startKill = "ok" => proc # "running")

\* C1 witness: the accept timed out on a live process, the cleanup kill succeeded
C1_Witness ==
    /\ startPc = "returned"
    /\ acceptOutcome = "timeout"
    /\ startKill = "ok"
    /\ proc = "signaled"

\* C2: the start call returns the runner with its connection and a nil error exactly when
\* the accept took the inbound connection; in every other case (exit error, timeout, a
\* failure before the spawn) it returns a nil runner and a non-nil error.
C2_StartOutcome ==
    startPc = "returned" =>
        /\ (acceptOutcome = "conn") <=> (retRunner = "runner" /\ retErr = "nil")
        /\ (acceptOutcome = "conn") => Connection # "nil"
        /\ (acceptOutcome # "conn") =>
                (retRunner = "nil" /\ retErr \notin {"nil", "unset"} /\ Connection = "nil")

\* C2 witness: the process exited cleanly without ever connecting; the timeout decided
C2_Witness ==
    /\ startPc = "returned"
    /\ acceptOutcome = "timeout"
    /\ ProcessState = "exited0"
    /\ ~connPending
    /\ retRunner = "nil"
    /\ retErr = "timeout"

\* C3 (as claimed): if the kill request killed the spawned process before the start call
\* returned, the start call returns failure: a nil runner and a non-nil error.
C3_KillRequestFailsStart ==
    (startPc = "returned" /\ killReqKilled) => (retRunner = "nil" /\ retErr # "nil")

\* C4 (as claimed): a Kill call entered when the process has already exited (its exit
\* collected by Wait), whatever ended it, returns nil at once, sends no stop message and
\* invokes no forced kill.
C4_KillIdempotent ==
    \A i \in KillCalls :
        kills[i].entryPS # "nil" =>
            /\ kills[i].ret = "nil"
            /\ kills[i].branch = "notRunning"
            /\ kills[i].msgs = 0
            /\ kills[i].forceKills = 0

\* C5: a Kill call on a running process in which the grace timer wins force-kills the
\* process exactly once and returns nil if that kill succeeded.
C5_TimerForcesOneKill ==
    \A i \in KillCalls :
        kills[i].branch = "timer" =>
            /\ kills[i].forceKills = 1
            /\ kills[i].osKill # "none"
            /\ (kills[i].osKill = "ok" => kills[i].ret = "nil")

\* C5 witness: the process ignored the stop message, the timer won, the kill succeeded
C5_Witness ==
    \E i \in KillCalls :
        /\ kills[i].entryProc = "running"
        /\ kills[i].branch = "timer"
        /\ kills[i].osKill = "ok"
        /\ kills[i].ret = "nil"
        /\ proc = "signaled"

\* C6 (as claimed): Kill returns an error exactly when the timer won and the OS kill
\* failed; it returns nil when the process was not running at entry (its exit already
\* collected by Wait), when the poller saw the exit first and when the forced kill
\* succeeded; a failed send of the stop message neither ends the sequence nor causes an
\* error by itself.
C6_KillErrorIffForceKillFailed ==
    \A i \in KillCalls :
        Returned(i) =>
            /\ (kills[i].ret = "err") <=> (kills[i].branch = "timer" /\ kills[i].osKill = "failed")
            /\ (kills[i].entryPS # "nil" => kills[i].ret = "nil")
            /\ (kills[i].branch = "poller" => kills[i].ret = "nil")
            /\ (kills[i].osKill = "ok" => kills[i].ret = "nil")
            /\ (kills[i].sendFailed => kills[i].branch \in {"poller", "timer"})

\* C7 (as claimed): a Kill call sends at most one stop message: exactly one when the
\* process is running at entry, none when the process has exited before the call.
C7_StopMessageOncePerKill ==
    \A i \in KillCalls :
        /\ kills[i].msgs <= 1
        /\ ((kills[i].runner = "runner" /\ kills[i].entryProc = "running") => kills[i].msgs = 1)
        /\ (kills[i].entryPS # "nil" => kills[i].msgs = 0)

\* C8 (as claimed): once a Kill call on a runner that completed the handshake has
\* returned, the runner's connection is closed, whatever branch the call took.
C8_ConnectionClosedAfterKill ==
    (retRunner = "runner" /\ killPc = "idle" /\ Len(kills) >= 1) => Connection = "closed"

\* C9: for an inherited environment holding the port variable at most once, the result of
\* getCleanEnv holds it exactly once, with the allocated port: an existing entry is
\* overwritten where it stood, an absent one is appended once at the end.
\* (An entry holds the variable when its name, as line 224 reads it, is the variable.)
C9_ExactlyOnePortEntry ==
    (envPc = "done" /\ PortKeyCount(env) <= 1) =>
        /\ PortKeyCount(cleanEnv) = 1
        /\ ExactPortCount(cleanEnv) = 1
        /\ \A i \in 1..Len(cleanEnv) : IsPortKey(cleanEnv[i]) => cleanEnv[i] = PortEntry(port)
        /\ (PortKeyCount(env) = 1 =>
                /\ Len(cleanEnv) = Len(env)
                /\ \A i \in 1..Len(env) : IsPortKey(env[i]) => cleanEnv[i] = PortEntry(port))
        /\ (PortKeyCount(env) = 0 =>
                /\ Len(cleanEnv) = Len(env) + 1
                /\ cleanEnv[Len(cleanEnv)] = PortEntry(port)
                /\ \A i \in 1..Len(env) : ~IsPortKey(cleanEnv[i]))

\* C9 witness: an entry for the variable in second place was overwritten there
C9_Witness ==
    /\ envPc = "done"
    /\ Len(env) = 3
    /\ PortKeyCount(env) = 1
    /\ IsPortKey(env[2])
    /\ env[2] # PortEntry(port)
    /\ cleanEnv[2] = PortEntry(port)

\* C10 (as claimed): whatever the inherited environment, the result of getCleanEnv never
\* holds two entries named by the port variable.
C10_NoDuplicatePortEntry ==
    envPc = "done" => ExactPortCount(cleanEnv) <= 1

\* C11: when loading or parsing the descriptor fails, or the version compatibility check
\* fails, the start call returns an error, and no process is spawned and no watcher is
\* started, then or later.
C11_NoSpawnOnDescriptorFailure ==
    (startPc = "returned" /\ retErr \in {"descriptorErr", "incompatibleErr"}) =>
        /\ retRunner = "nil"
        /\ proc = "none"
        /\ killWatcher = "none"
        /\ exitWatcher = "none"
        /\ \A i \in 1..Len(startLog) : startLog[i] # "spawn"

\* C11 witness: the start call returned the incompatible-version error
C11_Witness ==
    /\ startPc = "returned"
    /\ retErr = "incompatibleErr"
    /\ startLog = <<"bind", "descriptor", "incompatible">>

\* C12: at most one value is ever sent on the exit-error channel, only after the process
\* exited with a non-nil error; a process that exited cleanly causes no send.
C12_AtMostOneExitError ==
    /\ errSends <= 1
    /\ (errSends = 1 => ProcessState \in {"exitedErr", "signaled"})
    /\ (ProcessState = "exited0" => errSends = 0)
    /\ (exitWatcher = "sending" => errSends = 1)

\* C12 witness: the process exited cleanly, the watcher ended without a send
C12_Witness ==
    /\ ProcessState = "exited0"
    /\ exitWatcher = "done"
    /\ errSends = 0

\* the lifecycle state of the runner, read off its process and its connection
LifecycleState ==
    IF proc = "none" THEN "None"
    ELSE IF proc \in ExitKinds THEN "Dead"
    ELSE IF killPc = "racing" \/ Connection = "closed" THEN "Terminating"
    ELSE IF Connection = "open" THEN "Live"
    ELSE "Starting"

LifecycleRank(st) ==
    CASE st = "None" -> 0
      [] st = "Starting" -> 1
      [] st = "Live" -> 2
      [] st = "Terminating" -> 3
      [] st = "Dead" -> 4

\* C13: the lifecycle state of the runner never moves backward along
\* Starting -> Live -> Terminating -> Dead, and a process that has ended is never running
\* again, under every interleaving of start, kill request, process exit and Kill calls.
C13_LifecycleMonotonic ==
    [][ /\ LifecycleRank(LifecycleState') >= LifecycleRank(LifecycleState)
        /\ (proc \in ExitKinds => proc' = proc)
        /\ (Connection = "open" => Connection' # "nil")
        /\ (Connection = "closed" => Connection' = "closed") ]_vars

\* C13 witness: a runner that was live went through a Kill whose forced kill was refused,
\* was killed by a second Kill call, and is dead
C13_Witness ==
    /\ LifecycleState = "Dead"
    /\ Len(kills) = 2
    /\ kills[1].branch = "timer" /\ kills[1].osKill = "failed" /\ kills[1].entryProc = "running"
    /\ kills[2].branch = "timer" /\ kills[2].osKill = "ok" /\ kills[2].entryProc = "running"
    /\ Connection = "closed"

\* position of step ev in the start call's log, 0 when the step was not taken
StartPos(ev) ==
    IF \E i \in 1..Len(startLog) : startLog[i] = ev
    THEN CHOOSE i \in 1..Len(startLog) : startLog[i] = ev /\ \A j \in 1..(i - 1) : startLog[j] # ev
    ELSE 0

\* C14: in every start sequence the listener is bound, then the process is spawned with
\* that listener's port (every entry of its environment for the port variable names it),
\* then the accept is attempted, and the cleanup kill comes only after the accept has
\* failed; a process never exists without a listener.
C14_StartOrder ==
    /\ (StartPos("spawn") # 0 => (0 < StartPos("bind") /\ StartPos("bind") < StartPos("spawn")))
    /\ (StartPos("accept") # 0 => (0 < StartPos("spawn") /\ StartPos("spawn") < StartPos("accept")))
    /\ (StartPos("acceptFailed") # 0 => StartPos("accept") < StartPos("acceptFailed"))
    /\ (StartPos("cleanupKill") # 0 =>
            (0 < StartPos("acceptFailed") /\ StartPos("acceptFailed") < StartPos("cleanupKill")))
    /\ (proc # "none" => (listener = "open" /\ StartPos("spawn") # 0))
    /\ (proc # "none" =>
            /\ listenerPort \in ListenerPorts
            /\ PortKeyCount(childEnv) >= 1
            /\ \A i \in 1..Len(childEnv) :
                   IsPortKey(childEnv[i]) => childEnv[i] = PortEntry(Itoa(listenerPort)))
    /\ (listener = "open" <=> listenerPort # 0)
    /\ (startKill # "none" =>
            (acceptOutcome \in {"exitErr", "timeout"} /\ StartPos("cleanupKill") # 0))

\* C14 witness: a start sequence that went through bind, spawn, a failed accept and the
\* kill; the process inherited another port and was given the listener's
C14_Witness ==
    /\ startPc = "returned"
    /\ acceptOutcome = "exitErr"
    /\ startKill # "none"
    /\ startLog = SpawnLog \o <<"acceptFailed", "cleanupKill">>
    /\ listenerPort = 7777
    /\ childEnv = << <<"P","A","T","H","=","/","b">>, PortEntry(<<"7","7","7","7">>) >>

\* C15: in every Kill call on a running process the stop message is sent first: the
\* poller is started, the timer armed and any forced kill issued only after the send.
C15_SendBeforeRace ==
    \A i \in KillCalls :
        LET ev == kills[i].events IN
        /\ (kills[i].branch = "notRunning" <=> ev = <<>>)
        /\ (ev # <<>> =>
                /\ ev[1] = "send"
                /\ \A j \in 2..Len(ev) : ev[j] # "send"
                /\ \E j \in 2..Len(ev) : ev[j] = "poller"
                /\ \E j \in 2..Len(ev) : ev[j] = "timer")
        /\ (kills[i].forceKills > 0 => (Len(ev) >= 4 /\ ev[Len(ev)] = "forceKill"))

\* C15 witness: a Kill call on a running process that sent, raced and killed
C15_Witness ==
    \E i \in KillCalls :
        /\ kills[i].entryProc = "running"
        /\ kills[i].events = <<"send", "poller", "timer", "forceKill">>

\* C16 (as claimed): on every return path of the start call the listener it opened has
\* been closed; none is left open.
C16_ListenerClosedOnReturn ==
    startPc = "returned" => listener # "open"

\* ---------------------------------------------------------------- AddPrefixToEachLine
MaxMsgLen == 5

MsgChars == {"a", "\n"}

Messages == UNION { [1..n -> MsgChars] : n \in 0..MaxMsgLen }

Prefixes == { <<"#">>, <<"#", " ">> }

RECURSIVE IndexOfNewline(_, _)
\* index of the first newline of s at or after i, or 0
IndexOfNewline(s, i) ==
    IF i > Len(s) THEN 0
    ELSE IF s[i] = "\n" THEN i
    ELSE IndexOfNewline(s, i + 1)

RECURSIVE SplitLines(_)
\* strings.Split(text, "\n")
SplitLines(s) ==
    LET i == IndexOfNewline(s, 1)
    IN  IF i = 0 THEN <<s>>
        ELSE <<SubSeq(s, 1, i - 1)>> \o SplitLines(SubSeq(s, i + 1, Len(s)))

RECURSIVE JoinLines(_)
\* strings.Join(lines, "\n")
JoinLines(ls) ==
    IF ls = <<>> THEN <<>>
    ELSE IF Len(ls) = 1 THEN ls[1]
    ELSE ls[1] \o <<"\n">> \o JoinLines(Tail(ls))

\* mutant: the empty piece after a trailing newline gets the prefix too
AddPrefixToEachLineNoLastCase(text, template) ==
    LET lines == SplitLines(text)
    IN  JoinLines([i \in 1..Len(lines) |-> template \o lines[i]])

\* every line gets the prefix, but for the empty piece after a trailing newline
AddPrefixToEachLine(text, template) ==
    LET lines == SplitLines(text)
    IN  JoinLines([i \in 1..Len(lines) |->
                      IF i = Len(lines) /\ lines[i] = <<>> THEN lines[i]
                      ELSE template \o lines[i]])

PrefixInit ==
    /\ message \in Messages
    /\ prefix \in Prefixes
    /\ prefixedLines = <<>>
    /\ prefixPc = "input"

CallAddPrefix ==
    /\ prefixPc = "input"
    /\ prefixedLines' = AddPrefixToEachLine(message, prefix)
    /\ prefixPc' = "done"
    /\ UNCHANGED <<message, prefix, runnerVars, envVars, cmdVars, updVars>>

PrefixSpecInit == RunnerInit /\ GOOS = "linux" /\ EnvOff /\ PrefixInit /\ CmdOff /\ UpdOff

PrefixSpec == PrefixSpecInit /\ [][CallAddPrefix]_vars

RECURSIVE PrefixedFrom(_, _, _)
\* the text read once, left to right: the prefix goes in front of the first character of
\* every line, a newline ends a line
PrefixedFrom(s, atLineStart, pre) ==
    IF s = <<>> THEN <<>>
    ELSE (IF atLineStart THEN pre ELSE <<>>) \o <<Head(s)>>
            \o PrefixedFrom(Tail(s), Head(s) = "\n", pre)

CountChar(c, s) == Cardinality({i \in 1..Len(s) : s[i] = c})

\* number of newline-separated lines: one per newline, and one for an unfinished last line
NumLines(s) ==
    CountChar("\n", s) + (IF s # <<>> /\ s[Len(s)] # "\n" THEN 1 ELSE 0)

\* C17: AddPrefixToEachLine puts the prefix in front of every line of the message, empty
\* lines included, leaves lines and order otherwise as they were, and keeps a trailing
\* newline with no prefix after it: there are as many prefixes as lines.
C17_PrefixEveryLine ==
    prefixPc = "done" =>
        /\ prefixedLines = PrefixedFrom(message, TRUE, prefix)
        /\ CountChar("#", prefixedLines) = NumLines(message)
        /\ CountChar("\n", prefixedLines) = CountChar("\n", message)
        /\ Len(prefixedLines) = Len(message) + NumLines(message) * Len(prefix)
        /\ (message # <<>> => prefixedLines[Len(prefixedLines)] = message[Len(message)])

\* C17 witness: a message with empty lines and a trailing newline
C17_Witness ==
    /\ prefixPc = "done"
    /\ message = <<"\n", "a", "\n", "\n">>
    /\ prefix = <<"#">>
    /\ prefixedLines = <<"#", "\n", "#", "a", "\n", "#", "\n">>

\* C18 (as claimed): once the process has exited, the exit watcher eventually terminates,
\* whether or not anybody receives from the exit-error channel.
C18_ExitWatcherEnds ==
    (proc \in ExitKinds) ~> (exitWatcher = "done")

\* C19 (as claimed): after the grace timer won and the forced kill ended the running
\* process, the poller that Kill call left behind eventually sees the process gone and
\* terminates.
C19_AbandonedPollerEnds ==
    \A k \in 1..MaxKills :
        (k <= Len(kills) /\ kills[k].branch = "timer" /\ kills[k].killedLive)
            ~> (poller[k] = "done")

\* the step in which the kill watcher receives a kill request
KillWatcherStep == killWatcher = "waiting" /\ killWatcher' = "done"

\* C20: the kill watcher invokes the forced kill on the kill request in whatever phase
\* the runner is, with no stop message, and a live process the OS lets it kill is dead
\* at once; it takes at most one request; a request that comes after the process has
\* exited changes neither the runner nor any Kill result.
C20_KillWatcher ==
    [][ /\ killReqs' <= 1
        /\ (killWatcher = "done" => (killWatcher' = "done" /\ killReqs' = killReqs))
        /\ (KillWatcherStep =>
                /\ killReqs' = killReqs + 1
                /\ killWatcherRes' # "none"
                /\ ((proc = "running" /\ killWatcherRes' = "ok") => proc' = "signaled")
                /\ kills' = kills
                /\ (proc # "running" =>
                        UNCHANGED <<proc, ProcessState, Connection, listener, startPc, retRunner,
                                    retErr, killPc, kills, poller, exited, exitWatcher,
                                    errSends>>)) ]_vars

\* C20 witness: a kill request after the handshake killed the live process, no stop
\* message was ever sent
C20_Witness ==
    /\ killWatcher = "done"
    /\ killReqs = 1
    /\ killWatcherRes = "ok"
    /\ acceptOutcome = "conn"
    /\ startLog[Len(startLog)] = "accepted"
    /\ proc = "signaled"
    /\ kills = <<>>

\* ---------------------------------------------------------------- command selection by platform
CommandFields == {"Windows", "Linux", "Darwin"}

\* the platforms the switches of runner.go name, and linux, which the descriptor names
RecognizedPlatforms == {"windows", "darwin", "linux"}

\* the command lists of a descriptor: each platform's list is missing or its own command
OsCommands(windows, linux, darwin) ==
    [Windows : {<<>>, windows}, Linux : {<<>>, linux}, Darwin : {<<>>, darwin}]

Descriptors ==
    [Run  : OsCommands(<<"run.bat">>, <<"sh", "run.sh">>, <<"sh", "run_mac.sh">>),
     Init : OsCommands(<<"init.bat">>, <<"sh", "init.sh">>, <<"sh", "init_mac.sh">>)]

getOsSpecificCommand(r) ==
    CASE GOOS = "windows" -> r.Run.Windows
      [] GOOS = "darwin" -> r.Run.Darwin
      [] OTHER -> r.Run.Linux

\* the switch of ExecuteInitHookForRunner
InitHookCommand(r) ==
    CASE GOOS = "windows" -> r.Init.Windows
      [] GOOS = "darwin" -> r.Init.Darwin
      [] OTHER -> r.Init.Linux

CmdInit ==
    /\ runnerInfo \in Descriptors
    /\ command = <<>>
    /\ runPc = "input"
    /\ initCommand = <<>>
    /\ initPc = "input"

CallGetOsSpecificCommand ==
    /\ runPc = "input"
    /\ command' = getOsSpecificCommand(runnerInfo)
    /\ runPc' = "done"
    /\ UNCHANGED <<runnerInfo, initCommand, initPc, runnerVars, envVars, prefixVars, updVars>>

SelectInitHookCommand ==
    /\ initPc = "input"
    /\ initCommand' = InitHookCommand(runnerInfo)
    /\ initPc' = "done"
    /\ UNCHANGED <<runnerInfo, command, runPc, runnerVars, envVars, prefixVars, updVars>>

CmdSpecInit == RunnerInit /\ EnvOff /\ PrefixOff /\ CmdInit /\ UpdOff

CmdNext ==
    \/ CallGetOsSpecificCommand
    \/ SelectInitHookCommand

CmdSpec == CmdSpecInit /\ [][CmdNext]_vars

\* the list `selected` is some platform's (non-empty) list of `lists`
IsSomePlatformsList(selected, lists) ==
    \E f \in CommandFields : lists[f] # <<>> /\ selected = lists[f]

\* the selection `selected` out of `lists` is by platform, and an unrecognized platform
\* gets no platform's list
SelectedByPlatform(selected, lists) ==
    /\ GOOS = "windows" => selected = lists.Windows
    /\ GOOS = "darwin" => selected = lists.Darwin
    /\ GOOS = "linux" => selected = lists.Linux
    /\ GOOS \notin RecognizedPlatforms => ~IsSomePlatformsList(selected, lists)

\* C21: the command list is selected by platform: on windows the descriptor's windows
\* list, on darwin the darwin list, on linux the linux list, and on an unrecognized
\* platform no platform's list is silently used (run command and init hook alike)
C21_CommandByPlatform ==
    /\ runPc = "done" => SelectedByPlatform(command, runnerInfo.Run)
    /\ initPc = "done" => SelectedByPlatform(initCommand, runnerInfo.Init)

\* ---------------------------------------------------------------- getCleanEnv: frame
\* C24: getCleanEnv changes nothing but the port variable: every entry of the inherited
\* environment whose name is not the port variable stands in the result unchanged and at
\* the same position, and the result is as long as the input when the variable was
\* present and one entry longer when it was absent.
\* (An entry's name is the port variable when line 224 reads it as such.)
C24_OnlyPortVariableChanges ==
    envPc = "done" =>
        /\ Len(cleanEnv) >= Len(env)
        /\ \A i \in 1..Len(env) : ~IsPortKey(env[i]) => cleanEnv[i] = env[i]
        /\ (PortKeyCount(env) >= 1 => Len(cleanEnv) = Len(env))
        /\ (PortKeyCount(env) = 0 => Len(cleanEnv) = Len(env) + 1)

\* C24 witness: a variable with a longer name stands between two entries of the port
\* variable, and is still there, unchanged, in a result of the same length
C24_Witness ==
    /\ envPc = "done"
    /\ Len(env) = 3
    /\ IsPortKey(env[1])
    /\ IsPortKey(env[3])
    /\ env[2] = GaugeInternalPortEnvName \o <<"X", "=", "1">>
    /\ cleanEnv[1] # env[1]
    /\ cleanEnv[2] = env[2]
    /\ Len(cleanEnv) = 3

\* ---------------------------------------------------------------- update check (UpdateFacade)
MaxPlugins == 2

\* how checkGaugeUpdate ends: the tag cannot be fetched, it does not parse, the latest
\* version is not newer, it is newer
GaugeOutcomes == {"tagErr", "parseErr", "notNewer", "newer"}

\* how the check of one installed plugin ends: no install description, the installed
\* version is the latest, no newer version is compatible, an update is found
PluginOutcomes == {"descErr", "upToDate", "noCompatible", "update"}

PluginLists == UNION { [1..n -> PluginOutcomes] : n \in 0..MaxPlugins }

UpdatesMessage == "Updates are available. Run gauge --check-updates for more info."

checkGaugeUpdate(g) == IF g = "newer" THEN <<"Gauge">> ELSE <<>>

createPluginUpdateDetail(p) == IF p = "update" THEN <<"plugin">> ELSE <<>>

RECURSIVE checkPluginUpdates(_)
checkPluginUpdates(ps) ==
    IF ps = <<>> THEN <<>>
    ELSE (IF Head(ps) = "descErr" THEN <<>> ELSE createPluginUpdateDetail(Head(ps)))
             \o checkPluginUpdates(Tail(ps))

checkUpdates == checkGaugeUpdate(gaugeCheck) \o checkPluginUpdates(pluginChecks)

UpdInit ==
    /\ gaugeCheck \in GaugeOutcomes
    /\ pluginChecks \in PluginLists
    /\ facadePc = "start"
    /\ printTask = "none"
    /\ checkTask = "none"
    /\ heldMessage = ""
    /\ wg = 0
    /\ updLog = <<>>

\* u.print and the WaitGroup are made, the counter is raised, the goroutine is spawned
BufferUpdateDetails ==
    /\ facadePc = "start"
    /\ facadePc' = "buffered"
    /\ wg' = wg + 1
    /\ printTask' = "spawned"
    /\ UNCHANGED <<gaugeCheck, pluginChecks, checkTask, heldMessage, updLog,
                   runnerVars, envVars, prefixVars, cmdVars>>

\* the goroutine makes the unbuffered channel `message`, spawns the update check and
\* enters waitToPrint with an empty message
printUpdateInfo ==
    /\ printTask = "spawned"
    /\ printTask' = "select"
    /\ checkTask' = "checking"
    /\ heldMessage' = ""
    /\ UNCHANGED <<gaugeCheck, pluginChecks, facadePc, wg, updLog,
                   runnerVars, envVars, prefixVars, cmdVars>>

\* checkUpdates returns: with updates the task goes on to send on `message`, without it ends
CheckUpdatesReturns ==
    /\ checkTask = "checking"
    /\ checkTask' = IF Len(checkUpdates) > 0 THEN "sending" ELSE "done"
    /\ UNCHANGED <<gaugeCheck, pluginChecks, facadePc, printTask, heldMessage, wg, updLog,
                   runnerVars, envVars, prefixVars, cmdVars>>

\* mutant: after the message the wait loop returns instead of waiting again
WaitToPrintMessageNoRecursion ==
    /\ printTask = "select"
    /\ checkTask = "sending"
    /\ checkTask' = "done"
    /\ heldMessage' = UpdatesMessage
    /\ updLog' = Append(updLog, "message")
    /\ printTask' = "done"
    /\ UNCHANGED <<gaugeCheck, pluginChecks, facadePc, wg,
                   runnerVars, envVars, prefixVars, cmdVars>>

\* waitToPrint, case message = <-messageChan: the send of the update check is taken and
\* waitToPrint is entered again with the message
WaitToPrintMessage ==
    /\ printTask = "select"
    /\ checkTask = "sending"
    /\ checkTask' = "done"
    /\ heldMessage' = UpdatesMessage
    /\ updLog' = Append(updLog, "message")
    /\ UNCHANGED <<gaugeCheck, pluginChecks, facadePc, printTask, wg,
                   runnerVars, envVars, prefixVars, cmdVars>>

\* PrintUpdateBuffer begins: it blocks on the send u.print <- true
PrintUpdateBufferSends ==
    /\ facadePc = "buffered"
    /\ facadePc' = "sending"
    /\ UNCHANGED <<gaugeCheck, pluginChecks, printTask, checkTask, heldMessage, wg, updLog,
                   runnerVars, envVars, prefixVars, cmdVars>>

\* waitToPrint, case <-printChan: the send of PrintUpdateBuffer is taken, the message held
\* is logged, wg.Done() is called and the goroutine ends; the caller goes on to wg.Wait()
WaitToPrintPrint ==
    /\ printTask = "select"
    /\ facadePc = "sending"
    /\ facadePc' = "waiting"
    /\ updLog' = updLog \o <<"print">>
                        \o (IF heldMessage # "" THEN <<"log">> ELSE <<>>)
                        \o <<"done">>
    /\ wg' = wg - 1
    /\ printTask' = "done"
    /\ UNCHANGED <<gaugeCheck, pluginChecks, checkTask, heldMessage,
                   runnerVars, envVars, prefixVars, cmdVars>>

\* wg.Wait() returns once the counter is zero
PrintUpdateBufferReturns ==
    /\ facadePc = "waiting"
    /\ wg = 0
    /\ facadePc' = "returned"
    /\ UNCHANGED <<gaugeCheck, pluginChecks, printTask, checkTask, heldMessage, wg, updLog,
                   runnerVars, envVars, prefixVars, cmdVars>>

UpdSpecInit == RunnerInit /\ GOOS = "linux" /\ EnvOff /\ PrefixOff /\ CmdOff /\ UpdInit

UpdNext ==
    \/ BufferUpdateDetails
    \/ printUpdateInfo
    \/ CheckUpdatesReturns
    \/ WaitToPrintMessage
    \/ PrintUpdateBufferSends
    \/ WaitToPrintPrint
    \/ PrintUpdateBufferReturns

UpdSpec == UpdSpecInit /\ [][UpdNext]_vars

\* the goroutines are scheduled, the update check comes back, the select of waitToPrint
\* takes a case that is ready, and a Wait on a zero counter returns; when the caller
\* calls PrintUpdateBuffer is free
UpdFairSpec ==
    /\ UpdSpec
    /\ WF_vars(printUpdateInfo)
    /\ WF_vars(CheckUpdatesReturns)
    /\ WF_vars(WaitToPrintMessage \/ WaitToPrintPrint)
    /\ WF_vars(PrintUpdateBufferReturns)

\* how often waitToPrint did `what`
UpdCount(what) == Cardinality({i \in 1..Len(updLog) : updLog[i] = what})

\* the message was received before the print signal
MessageBeforePrint ==
    \E i, j \in 1..Len(updLog) : i < j /\ updLog[i] = "message" /\ updLog[j] = "print"

WaitLoopOnce ==
    /\ UpdCount("print") <= 1
    /\ UpdCount("done") <= 1
    /\ UpdCount("log") <= 1
    /\ (printTask = "done" <=> UpdCount("print") = 1)
    /\ (UpdCount("print") = 1 => UpdCount("done") = 1)
    /\ (UpdCount("done") = 1 => updLog[Len(updLog)] = "done")
    /\ (UpdCount("log") = 1 => MessageBeforePrint)
    /\ (facadePc \in {"waiting", "returned"} => UpdCount("print") = 1)
    /\ (facadePc = "returned" => wg = 0)

\* C22: after BufferUpdateDetails a call of PrintUpdateBuffer always returns, whatever the
\* state of the update check; the wait loop ends on the print signal and on nothing else,
\* calls wg.Done exactly once, and logs the message at most once and only if it received
\* the message before the print signal.
C22_PrintUpdateBufferReturns ==
    /\ []WaitLoopOnce
    /\ (facadePc = "sending") ~> (facadePc = "returned")

\* C22 witness: the message came first, then the print signal; it was logged, Done was
\* called and PrintUpdateBuffer returned
C22_Witness ==
    /\ facadePc = "returned"
    /\ updLog = <<"message", "print", "log", "done">>

\* C23 (as claimed): once PrintUpdateBuffer has returned, every task BufferUpdateDetails
\* started eventually ends; the update check does not stay blocked on sending its message.
C23_TasksEndAfterPrint ==
    (facadePc = "returned") ~> (printTask = "done" /\ checkTask = "done")

====
